---- MODULE Spec2Model ----
(***************************************************************************)
(* Model of opi_gpio_rs: GpioPin (src/src/pin.rs) and GpioWatcher          *)
(* (src/src/watcher.rs).  Pins are values owned by the caller; all value   *)
(* I/O goes through one value file per pin number; the watcher registers   *)
(* one inotify watch per pin and republishes values on watch channels.     *)
(***************************************************************************)
EXTENDS Integers, Sequences, FiniteSets, TLC

(* ------------------------------ bounds -------------------------------- *)
\* number of pin values the caller can hold
MaxPins == 2
\* pin numbers 1..MaxPinNumber (u8 in the code)
MaxPinNumber == 2
\* capacity of the modelled inotify event queue
MaxQueue == 2

Slots == 1..MaxPins
PinNumbers == 1..MaxPinNumber
Chans == 1..MaxPins

\* u8 arguments the caller passes as value / default
ValueSamples == {0, 1, 2}

(* --------------------------- value files ------------------------------ *)
NoFile == <<"absent">>
Whitespace == {" ", "\n", "\t"}
Digits == <<"0", "1", "2", "3", "4", "5", "6", "7", "8", "9">>
U8Max == 255

\* a content that is not valid UTF-8 (read_to_string fails on it)
BadUtf8 == <<"\\xff">>

\* what the line's level, or another process, leaves in a value file
ExtContents == {<<"0", "\n">>, <<"1", "\n">>, BadUtf8}

\* contents that are text but not a level
OddContents == {<<"2">>, <<"x">>}

RECURSIVE TrimStart(_)
TrimStart(s) ==
    IF s # <<>> /\ Head(s) \in Whitespace THEN TrimStart(Tail(s)) ELSE s

RECURSIVE TrimEnd(_)
TrimEnd(s) ==
    IF s # <<>> /\ s[Len(s)] \in Whitespace
    THEN TrimEnd(SubSeq(s, 1, Len(s) - 1))
    ELSE s

\* str::trim
Trim(s) == TrimEnd(TrimStart(s))

IsDigit(c) == \E d \in 1..Len(Digits) : Digits[d] = c
DigitVal(c) == (CHOOSE d \in 1..Len(Digits) : Digits[d] = c) - 1

RECURSIVE ParseDigits(_, _)
\* accumulates decimal digits; -1 on a non-digit or on overflow of u8
ParseDigits(s, acc) ==
    IF s = <<>> THEN acc
    ELSE IF ~IsDigit(Head(s)) THEN -1
    ELSE IF acc * 10 + DigitVal(Head(s)) > U8Max THEN -1
    ELSE ParseDigits(Tail(s), acc * 10 + DigitVal(Head(s)))

\* str::parse::<u8>: -1 stands for Err
ParseU8(s) ==
    LET body == IF s # <<>> /\ Head(s) = "+" THEN Tail(s) ELSE s
    IN  IF body = <<>> THEN -1 ELSE ParseDigits(body, 0)

\* a formatting that prefixes the digits the way a hexadecimal literal is
U8ToString_Hex(v) == <<"0", "x", Digits[(v % 10) + 1]>>

RECURSIVE U8ToString(_)
\* u8::to_string
U8ToString(v) ==
    IF v < 10 THEN <<Digits[v + 1]>>
    ELSE U8ToString(v \div 10) \o <<Digits[(v % 10) + 1]>>

\* str::contains("1")
Contains1(s) == \E i \in 1..Len(s) : s[i] = "1"

(* ------------------------------- state -------------------------------- *)
VARIABLES
    pins,          \* slot -> the GpioPin value the caller holds there
    file,          \* pin number -> content of <GPIO_DIR>/gpio<N>/value
    gpio,          \* pin number -> what the gpio tool configured
    gpio_dir,      \* whether the GPIO_DIR environment variable is set
    chan,          \* channel -> [value, rx]: the watch channel and its receivers
    sent,          \* channel -> kinds of publication made on it so far
    wpc,           \* position of GpioWatcher::new
    pin_map,       \* entries of the pin map not yet registered
    cur,           \* entry whose initial value is being read
    inotify,       \* the inotify instance of the watcher
    watches,       \* kernel side: watch descriptor -> pin number
    notifier_map,  \* watch descriptor -> [path, chan]
    queue,         \* items the event stream has ready
    task,          \* the spawned watcher task; logged: the channel of the
                   \* failure it logged last
    handle,        \* the GpioWatcher value returned to the caller
    noise,         \* injected event-source items so far
    last           \* the step just taken and its outcome

vars == <<pins, file, gpio, gpio_dir, chan, sent, wpc, pin_map, cur, inotify,
          watches, notifier_map, queue, task, handle, noise, last>>

pinVars == <<pins, gpio>>
watcherVars == <<wpc, pin_map, cur, inotify, watches, notifier_map, task, handle>>
chanVars == <<chan, sent>>

\* at most this many injected create/delete/unknown/error/end items
MaxNoise == 1

NoPin == [kind |-> "None"]
\* a pin value the caller has moved into a pin map
Moved(p) == [kind |-> "Moved", was |-> p]
InputPin(n, w) == [kind |-> "Input", pin_number |-> n, support_watch |-> w]
OutputPin(n) == [kind |-> "Output", pin_number |-> n]

IsPin(p) == p.kind \in {"Input", "Output"}

\* GpioPin::get_pin_number
get_pin_number(p) == p.pin_number

\* GpioPin::support_watch
support_watch(p) == IF p.kind = "Input" THEN p.support_watch ELSE FALSE

NoCur == [pin |-> NoPin, chan |-> 0, content |-> NoFile]
NoTask == [pc |-> "none"]

Step(op, slot, val, status, tool) ==
    [op |-> op, slot |-> slot, val |-> val, status |-> status, tool |-> tool]

\* what the gpio tool has done for pin number n when the caller holds ps
GpioOf(ps, n) ==
    IF \E s \in Slots : ps[s] = InputPin(n, TRUE) THEN "edge"
    ELSE IF \E s \in Slots : ps[s] = OutputPin(n) THEN "out"
    ELSE IF \E s \in Slots : ps[s] = InputPin(n, FALSE) THEN "in"
    ELSE "none"

\* the pin values the constructors and enable_watch produce
PinValues ==
    {InputPin(n, w) : n \in PinNumbers, w \in BOOLEAN}
    \cup {OutputPin(n) : n \in PinNumbers}

Quiet ==
    /\ chan = [c \in Chans |-> [value |-> 0, rx |-> TRUE]]
    /\ sent = [c \in Chans |-> {}]
    /\ wpc = "idle"
    /\ pin_map = {}
    /\ cur = NoCur
    /\ inotify = "none"
    /\ watches = <<>>
    /\ notifier_map = <<>>
    /\ queue = <<>>
    /\ task = NoTask
    /\ handle = "none"
    /\ noise = 0
    /\ last = Step("init", 0, 0, "ok", "none")

\* no pin has been constructed yet
PinInit ==
    /\ pins = [s \in Slots |-> NoPin]
    /\ file = [n \in PinNumbers |-> NoFile]
    /\ gpio = [n \in PinNumbers |-> "none"]
    /\ gpio_dir \in BOOLEAN
    /\ Quiet

\* the caller holds the pins it constructed and no watcher exists yet
Init ==
    /\ pins \in [Slots -> PinValues \cup {NoPin}]
    /\ file = [n \in PinNumbers |->
                 IF GpioOf(pins, n) = "none" THEN NoFile ELSE <<"0", "\n">>]
    /\ gpio = [n \in PinNumbers |-> GpioOf(pins, n)]
    /\ gpio_dir \in BOOLEAN
    /\ Quiet

(* ----------------------- files and the event source -------------------- *)
ModifyEvent(wd) == [kind |-> "event", wd |-> wd, mask |-> "MODIFY"]

\* watch descriptors the kernel holds for the value file of pin n
WdsOf(n) == {wd \in DOMAIN watches : watches[wd] = n}

\* inotify appends an event unless it equals the newest queued one
Enqueue(q, item) ==
    IF q # <<>> /\ q[Len(q)] = item THEN q ELSE Append(q, item)

RECURSIVE EnqueueAll(_, _)
EnqueueAll(q, wds) ==
    IF wds = {} THEN q
    ELSE LET wd == CHOOSE w \in wds : \A x \in wds : w <= x
         IN  EnqueueAll(Enqueue(q, ModifyEvent(wd)), wds \ {wd})

\* the queue after the value file of pin n was modified
QueueAfterModify(n) ==
    IF inotify \in {"open", "stream"} THEN EnqueueAll(queue, WdsOf(n)) ELSE queue

HasRoom(n) == Len(QueueAfterModify(n)) <= MaxQueue

\* a write of content c to the value file of pin n (by anyone)
FileWrite(n, c) ==
    /\ file' = [file EXCEPT ![n] = c]
    /\ queue' = QueueAfterModify(n)

\* the level of the line changes, or another process writes the file
ExtWrite(n, c) ==
    /\ file[n] # NoFile
    /\ file[n] # c
    /\ HasRoom(n)
    /\ FileWrite(n, c)
    /\ UNCHANGED <<pinVars, gpio_dir, chanVars, watcherVars, noise, last>>

(* ------------------------------ GpioPin -------------------------------- *)
\* the value file of an exported pin exists
Exported(f, n) == [f EXCEPT ![n] = IF f[n] = NoFile THEN <<"0", "\n">> ELSE f[n]]

\* GpioPin::new_input
new_input(s, n, tool_ok) ==
    /\ pins[s] = NoPin
    /\ IF tool_ok
       THEN /\ gpio' = [gpio EXCEPT ![n] = "in"]
            /\ file' = Exported(file, n)
            /\ pins' = [pins EXCEPT ![s] = InputPin(n, FALSE)]
            /\ last' = Step("new_input", s, n, "ok", "export")
       ELSE /\ last' = Step("new_input", s, n, "ExportError", "export")
            /\ UNCHANGED <<pins, gpio, file>>
    /\ UNCHANGED <<gpio_dir, chanVars, watcherVars, queue, noise>>

\* the check of new_output's default
ValidDefault(default) == ~(default # 0 /\ default # 1)

\* GpioPin::new_output
new_output(s, n, default, tool_ok, io_ok) ==
    /\ pins[s] = NoPin
    /\ IF ~ValidDefault(default)
       THEN /\ last' = Step("new_output", s, default, "InvalidArgument", "none")
            /\ UNCHANGED <<pins, gpio, file, queue>>
       ELSE IF ~tool_ok
       THEN /\ last' = Step("new_output", s, default, "ExportError", "export")
            /\ UNCHANGED <<pins, gpio, file, queue>>
       ELSE /\ gpio' = [gpio EXCEPT ![n] = "out"]
            /\ IF ~gpio_dir
               THEN /\ file' = Exported(file, n)
                    /\ last' = Step("new_output", s, default, "ConfigError", "export")
                    /\ UNCHANGED <<pins, queue>>
               ELSE IF ~io_ok
               THEN /\ file' = Exported(file, n)
                    /\ last' = Step("new_output", s, default, "IoError", "export")
                    /\ UNCHANGED <<pins, queue>>
               ELSE /\ HasRoom(n)
                    /\ FileWrite(n, U8ToString(default))
                    /\ pins' = [pins EXCEPT ![s] = OutputPin(n)]
                    /\ last' = Step("new_output", s, default, "ok", "export")
    /\ UNCHANGED <<gpio_dir, chanVars, watcherVars, noise>>

\* an enable_watch that does not look at the exit status of the edge command
enable_watch_Unchecked(s, tool_ok) ==
    /\ IsPin(pins[s])
    /\ IF pins[s].kind = "Input"
       THEN /\ pins' = [pins EXCEPT ![s].support_watch = TRUE]
            /\ gpio' = IF tool_ok
                       THEN [gpio EXCEPT ![get_pin_number(pins[s])] = "edge"]
                       ELSE gpio
            /\ last' = Step("enable_watch", s, 0,
                             IF tool_ok THEN "ok" ELSE "EdgeError", "edge")
       ELSE /\ last' = Step("enable_watch", s, 0, "UnsupportedOperation", "none")
            /\ UNCHANGED <<pins, gpio>>
    /\ UNCHANGED <<file, gpio_dir, chanVars, watcherVars, queue, noise>>

\* an enable_watch that runs the edge command for an output pin as well, which
\* turns the pin into an input
enable_watch_Coerce(s, tool_ok) ==
    /\ IsPin(pins[s])
    /\ IF tool_ok
       THEN /\ pins' = [pins EXCEPT ![s] = InputPin(get_pin_number(pins[s]), TRUE)]
            /\ gpio' = [gpio EXCEPT ![get_pin_number(pins[s])] = "edge"]
            /\ last' = Step("enable_watch", s, 0, "ok", "edge")
       ELSE /\ last' = Step("enable_watch", s, 0, "EdgeError", "edge")
            /\ UNCHANGED <<pins, gpio>>
    /\ UNCHANGED <<file, gpio_dir, chanVars, watcherVars, queue, noise>>

\* GpioPin::enable_watch
enable_watch(s, tool_ok) ==
    /\ IsPin(pins[s])
    /\ IF pins[s].kind = "Input"
       THEN IF tool_ok
            THEN /\ pins' = [pins EXCEPT ![s].support_watch = TRUE]
                 /\ gpio' = [gpio EXCEPT ![get_pin_number(pins[s])] = "edge"]
                 /\ last' = Step("enable_watch", s, 0, "ok", "edge")
            ELSE /\ last' = Step("enable_watch", s, 0, "EdgeError", "edge")
                 /\ UNCHANGED <<pins, gpio>>
       ELSE /\ last' = Step("enable_watch", s, 0, "UnsupportedOperation", "none")
            /\ UNCHANGED <<pins, gpio>>
    /\ UNCHANGED <<file, gpio_dir, chanVars, watcherVars, queue, noise>>

\* a check that takes every nonzero value for high
ValidValue_Nonzero(value) == value >= 0

\* the check of write's value
ValidValue(value) == ~(value # 0 /\ value # 1)

\* GpioPin::write
write(s, value, io_ok) ==
    /\ IsPin(pins[s])
    /\ LET n == get_pin_number(pins[s])
       IN  IF ~ValidValue(value)
           THEN /\ last' = Step("write", s, value, "InvalidArgument", "none")
                /\ UNCHANGED <<file, queue>>
           ELSE IF ~gpio_dir
           THEN /\ last' = Step("write", s, value, "panic", "none")
                /\ UNCHANGED <<file, queue>>
           ELSE IF file[n] = NoFile \/ ~io_ok
           THEN /\ last' = Step("write", s, value, "IoError", "none")
                /\ UNCHANGED <<file, queue>>
           ELSE /\ HasRoom(n)
                /\ FileWrite(n, U8ToString(value))
                /\ last' = Step("write", s, value, "ok", "none")
    /\ UNCHANGED <<pinVars, gpio_dir, chanVars, watcherVars, noise>>

\* tokio::fs::read_to_string on the value file: content, or failure
Readable(c) == c # NoFile /\ c # BadUtf8

\* the Result of GpioPin::read on content c: a status and a value
ReadResult(c) ==
    IF ~Readable(c) THEN [status |-> "IoError", val |-> 0]
    ELSE IF ParseU8(Trim(c)) < 0 THEN [status |-> "ParseError", val |-> 0]
    ELSE [status |-> "ok", val |-> ParseU8(Trim(c))]

\* GpioPin::read
read(s) ==
    /\ IsPin(pins[s])
    /\ LET n == get_pin_number(pins[s])
           r == ReadResult(file[n])
       IN  IF ~gpio_dir
           THEN last' = Step("read", s, 0, "panic", "none")
           ELSE last' = Step("read", s, r.val, r.status, "none")
    /\ UNCHANGED <<pinVars, file, gpio_dir, chanVars, watcherVars, queue, noise>>

(* ---------------------------- watch channel ---------------------------- *)
\* a send that succeeds without receivers
CanSend_Always(c) == TRUE

\* a send that reaches every channel
Publish_All(c, v, kind) ==
    /\ chan' = [d \in Chans |-> [chan[d] EXCEPT !.value = v]]
    /\ sent' = [d \in Chans |-> sent[d] \cup {kind}]

\* watch::Sender::send: stores the value unless every receiver is gone
CanSend(c) == chan[c].rx

Publish(c, v, kind) ==
    /\ chan' = [chan EXCEPT ![c].value = v]
    /\ sent' = [sent EXCEPT ![c] = @ \cup {kind}]

\* the caller drops the receivers of a channel
DropReceiver(c) ==
    /\ pins[c] # NoPin
    /\ chan[c].rx
    /\ chan' = [chan EXCEPT ![c].rx = FALSE]
    /\ UNCHANGED <<pinVars, file, gpio_dir, sent, watcherVars, queue, noise, last>>

(* ----------------------------- GpioWatcher ----------------------------- *)
\* an inotify instance that outlives the failed constructor
Released_Leak == UNCHANGED <<inotify, watches, queue>>

\* the inotify instance is dropped: its watches and queued events go with it
Released ==
    /\ inotify' = "closed"
    /\ watches' = <<>>
    /\ queue' = <<>>

\* new returns Err (or unwinds): locals are dropped, nothing is returned
NewFails(status) ==
    /\ wpc' = "failed"
    /\ pin_map' = {}
    /\ cur' = NoCur
    /\ notifier_map' = <<>>
    /\ last' = Step("GpioWatcher::new", 0, 0, status, "none")
    /\ UNCHANGED <<task, handle>>

\* the slots whose pins the caller moves into the map: all it holds
Held == {s \in Slots : IsPin(pins[s])}

\* the pin map the caller builds: the pin in slot s with the sender of channel s
PinMap == {[pin |-> pins[s], chan |-> s] : s \in Held}

\* a check that stops at the first pin that supports watch
AllSupportWatch_Any(m) == \E e \in m : support_watch(e.pin)

\* a check that looks at the role only
AllSupportWatch_Inputs(m) == \A e \in m : e.pin.kind = "Input"

\* the check that every pin supports watch
AllSupportWatch(m) == \A e \in m : support_watch(e.pin)

\* GpioWatcher::new up to Inotify::init
new_start(init_ok) ==
    /\ wpc = "idle"
    /\ \A a, b \in Held : a # b => pins[a] # pins[b]
    /\ pins' = [s \in Slots |-> IF s \in Held THEN Moved(pins[s]) ELSE pins[s]]
    /\ IF ~AllSupportWatch(PinMap)
       THEN /\ NewFails("UnwatchablePin")
            /\ UNCHANGED <<inotify, watches, queue>>
       ELSE IF ~init_ok
       THEN /\ NewFails("InotifyError")
            /\ UNCHANGED <<inotify, watches, queue>>
       ELSE /\ inotify' = "open"
            /\ wpc' = "loop"
            /\ pin_map' = PinMap
            /\ last' = Step("GpioWatcher::new", 0, 0, "pending", "none")
            /\ UNCHANGED <<cur, watches, notifier_map, task, handle, queue>>
    /\ UNCHANGED <<file, gpio, gpio_dir, chanVars, noise>>

\* an initial value assumed low instead of read
InitialRead_Low(n) == <<"0", "\n">>

\* pin.read() of the constructor reads the value file of the pin
InitialRead(n) == file[n]

\* the loop takes the next entry and awaits pin.read()
new_read(e) ==
    /\ wpc = "loop"
    /\ e \in pin_map
    /\ IF ~gpio_dir
       THEN /\ NewFails("panic")
            /\ Released
       ELSE /\ wpc' = "read_done"
            /\ pin_map' = pin_map \ {e}
            /\ cur' = [pin |-> e.pin, chan |-> e.chan,
                       content |-> InitialRead(get_pin_number(e.pin))]
            /\ last' = Step("GpioWatcher::new", 0, 0, "pending", "none")
            /\ UNCHANGED <<inotify, watches, notifier_map, queue, task, handle>>
    /\ UNCHANGED <<pinVars, file, gpio_dir, chanVars, noise>>

\* the watch descriptor inotify gives for the value file of pin n
WdFor(n) ==
    IF WdsOf(n) # {} THEN CHOOSE wd \in WdsOf(n) : TRUE ELSE Len(watches) + 1

\* an insert that pairs the watch with the sender of another entry
Registration_Swapped(n, c) == [path |-> n, chan |-> (c % MaxPins) + 1]

\* what notifier_map.insert stores for the watch of pin n paired with channel c
Registration(n, c) == [path |-> n, chan |-> c]

\* notifier.send(initial value), then inotify.watches().add, then the insert
new_register(add_ok) ==
    /\ wpc = "read_done"
    /\ LET n == get_pin_number(cur.pin)
           c == cur.chan
           r == ReadResult(cur.content)
           wd == WdFor(n)
       IN  IF r.status # "ok"
           THEN /\ NewFails(r.status)
                /\ Released
                /\ UNCHANGED chanVars
           ELSE IF ~CanSend(c)
           THEN /\ NewFails("SendError")
                /\ Released
                /\ UNCHANGED chanVars
           ELSE /\ Publish(c, r.val, "initial")
                /\ IF ~add_ok
                   THEN /\ NewFails("WatchRegistrationError")
                        /\ Released
                   ELSE /\ watches' = (wd :> n) @@ watches
                        /\ notifier_map' = (wd :> Registration(n, c)) @@ notifier_map
                        /\ wpc' = "loop"
                        /\ cur' = NoCur
                        /\ last' = Step("GpioWatcher::new", 0, 0, "pending", "none")
                        /\ UNCHANGED <<pin_map, inotify, queue, task, handle>>
    /\ UNCHANGED <<pinVars, file, gpio_dir, noise>>

\* a loop that is left after its first entry
LoopDone_Early == pin_map = {} \/ notifier_map # <<>>

\* the for loop over pin_map has consumed every entry
LoopDone == pin_map = {}

\* into_event_stream, tokio::spawn, Ok(Self)
new_spawn(stream_ok) ==
    /\ wpc = "loop"
    /\ LoopDone
    /\ IF ~stream_ok
       THEN /\ NewFails("InotifyError")
            /\ Released
       ELSE /\ inotify' = "stream"
            /\ task' = [pc |-> "wait", aborted |-> FALSE, wd |-> 0, msg |-> 0,
                             logged |-> 0]
            /\ handle' = "live"
            /\ wpc' = "returned"
            /\ last' = Step("GpioWatcher::new", 0, 0, "ok", "none")
            /\ UNCHANGED <<pin_map, cur, watches, notifier_map, queue>>
    /\ UNCHANGED <<pinVars, file, gpio_dir, chanVars, noise>>

\* Drop for GpioWatcher: JoinHandle::abort
drop ==
    /\ handle = "live"
    /\ handle' = "dropped"
    /\ task' = IF task.pc \in {"wait", "read", "send"}
               THEN [task EXCEPT !.aborted = TRUE] ELSE task
    /\ UNCHANGED <<pinVars, file, gpio_dir, chanVars, wpc, pin_map, cur, inotify,
                   watches, notifier_map, queue, noise, last>>

(* --------------------------- the watcher task -------------------------- *)
\* the task's future is dropped: it owns the stream and the notifier map
TaskGone(pc) ==
    /\ task' = [pc |-> pc, aborted |-> task.aborted, wd |-> 0, msg |-> 0,
                logged |-> 0]
    /\ notifier_map' = <<>>
    /\ Released

\* an aborted task is cancelled at the await where it is suspended
task_cancel ==
    /\ task.pc \in {"wait", "read"}
    /\ task.aborted
    /\ TaskGone("cancelled")
    /\ UNCHANGED <<pinVars, file, gpio_dir, chanVars, wpc, pin_map, cur, handle,
                   noise, last>>

\* a loop that acts on every event of a known watch
ActsOn_AnyMask(item) == item.wd \in DOMAIN notifier_map

\* the loop acts on an event: its class includes modify and its id is known
ActsOn(item) == item.mask = "MODIFY" /\ item.wd \in DOMAIN notifier_map

\* event_stream.next().await yields an item; the loop looks at it
task_next ==
    /\ task.pc = "wait"
    /\ ~task.aborted
    /\ queue # <<>>
    /\ LET item == Head(queue)
       IN  IF item.kind # "event"
           THEN TaskGone("ended")
           ELSE /\ queue' = Tail(queue)
                /\ task' = IF ActsOn(item)
                           THEN [task EXCEPT !.pc = "read", !.wd = item.wd]
                           ELSE task
                /\ UNCHANGED <<inotify, watches, notifier_map>>
    /\ UNCHANGED <<pinVars, file, gpio_dir, chanVars, wpc, pin_map, cur, handle,
                   noise, last>>

\* the message for a value read from the file
Message(c) == IF Contains1(Trim(c)) THEN 1 ELSE 0

\* a task that a failed re-read ends (a `?` in place of the match)
task_read_Fatal ==
    /\ task.pc = "read"
    /\ ~task.aborted
    /\ LET c == file[notifier_map[task.wd].path]
       IN  IF ~Readable(c)
           THEN TaskGone("ended")
           ELSE /\ task' = [task EXCEPT !.pc = "send", !.msg = Message(c)]
                /\ UNCHANGED <<inotify, watches, notifier_map, queue>>
    /\ UNCHANGED <<pinVars, file, gpio_dir, chanVars, wpc, pin_map, cur, handle,
                   noise, last>>

\* fs::read_to_string(value_path).await completes and the task goes on
task_read ==
    /\ task.pc = "read"
    /\ ~task.aborted
    /\ LET c == file[notifier_map[task.wd].path]
       IN  IF ~Readable(c)
           THEN task' = [task EXCEPT !.pc = "wait", !.wd = 0,
                                     !.logged = notifier_map[task.wd].chan]
           ELSE task' = [task EXCEPT !.pc = "send", !.msg = Message(c)]
    /\ UNCHANGED <<pinVars, file, gpio_dir, chanVars, wpc, pin_map, cur, inotify,
                   watches, notifier_map, queue, handle, noise, last>>

\* notifier.send(message), then back to the head of the loop
task_send ==
    /\ task.pc = "send"
    /\ LET c == notifier_map[task.wd].chan
       IN  IF CanSend(c)
           THEN /\ Publish(c, task.msg, "change")
                /\ task' = [task EXCEPT !.pc = "wait", !.wd = 0, !.msg = 0]
           ELSE /\ UNCHANGED chanVars
                /\ task' = [task EXCEPT !.pc = "wait", !.wd = 0, !.msg = 0,
                                        !.logged = c]
    /\ UNCHANGED <<pinVars, file, gpio_dir, wpc, pin_map, cur, inotify,
                   watches, notifier_map, queue, handle, noise, last>>

(* ------------------------- the event source ---------------------------- *)
WatchIds == 1..(MaxPins + 1)

\* items the event source can deliver besides modify events of watched files
NoiseItems ==
    {[kind |-> "event", wd |-> 1, mask |-> m] : m \in {"CREATE", "DELETE"}}
    \cup {ModifyEvent(MaxPins + 1)}
    \cup {[kind |-> "error"], [kind |-> "end"]}

ext_event(item) ==
    /\ inotify \in {"open", "stream"}
    /\ noise < MaxNoise
    /\ Len(queue) < MaxQueue
    /\ queue' = Append(queue, item)
    /\ noise' = noise + 1
    /\ UNCHANGED <<pinVars, file, gpio_dir, chanVars, watcherVars, last>>

(* ------------------------------- system -------------------------------- *)
PinNext ==
    \/ \E s \in Slots, n \in PinNumbers, ok \in BOOLEAN : new_input(s, n, ok)
    \/ \E s \in Slots, n \in PinNumbers, d \in ValueSamples, ok \in BOOLEAN, io \in BOOLEAN :
          new_output(s, n, d, ok, io)
    \/ \E s \in Slots, ok \in BOOLEAN : enable_watch(s, ok)
    \/ \E s \in Slots, v \in ValueSamples, io \in BOOLEAN : write(s, v, io)
    \/ \E s \in Slots : read(s)

WatcherNext ==
    \/ \E ok \in BOOLEAN : new_start(ok)
    \/ \E e \in pin_map : new_read(e)
    \/ \E ok \in BOOLEAN : new_register(ok)
    \/ \E ok \in BOOLEAN : new_spawn(ok)
    \/ drop

TaskNext ==
    \/ task_next
    \/ task_read
    \/ task_send
    \/ task_cancel

EnvNext ==
    \/ \E n \in PinNumbers, c \in ExtContents : ExtWrite(n, c)
    \/ \E c \in Chans : DropReceiver(c)

Next == WatcherNext \/ TaskNext \/ EnvNext

\* the watcher, its task and the environment, from any pins the caller holds
Spec == Init /\ [][Next]_vars

\* the runtime polls a task that can make progress
FairSpec ==
    Spec /\ WF_vars(task_next) /\ WF_vars(task_read) /\ WF_vars(task_send)

\* the event source also delivers other items, ends or fails
NoisyNext == Next \/ \E item \in NoiseItems : ext_event(item)

NoisySpec == Init /\ [][NoisyNext]_vars

\* the operations that set a pin up for watching
SetupPinNext ==
    \/ \E s \in Slots, n \in PinNumbers, ok \in BOOLEAN : new_input(s, n, ok)
    \/ \E s \in Slots, n \in PinNumbers, d \in ValueSamples, ok \in BOOLEAN, io \in BOOLEAN :
          new_output(s, n, d, ok, io)
    \/ \E s \in Slots, ok \in BOOLEAN : enable_watch(s, ok)

SetupNext == SetupPinNext \/ WatcherNext \/ TaskNext

\* pins are constructed and enabled, then a watcher is built over them
SetupSpec == PinInit /\ [][SetupNext]_vars

PinEnvNext == \E n \in PinNumbers, c \in ExtContents \cup OddContents : ExtWrite(n, c)

PinSpecNext == PinNext \/ PinEnvNext

\* the pin operations alone, from no pins
PinSpec == PinInit /\ [][PinSpecNext]_vars

(* ======================= properties of the watcher ===================== *)
\* the slots whose pins went into the pin map of GpioWatcher::new
InMap == {s \in Slots : pins[s].kind = "Moved"}

\* this step is the watcher task publishing a value on channel c
TaskPublishes(c) ==
    /\ task.pc = "send"
    /\ task'.pc = "wait"
    /\ notifier_map[task.wd].chan = c
    /\ CanSend(c)

\* this step is GpioWatcher::new publishing an initial value on channel c
NewPublishes(c) == "initial" \notin sent[c] /\ "initial" \in sent'[c]

NothingAllocated ==
    /\ inotify = "none"
    /\ watches = <<>>
    /\ notifier_map = <<>>
    /\ queue = <<>>
    /\ task = NoTask
    /\ handle = "none"
    /\ \A c \in Chans : sent[c] = {} /\ chan[c].value = 0

\* C1: a pin map holding a pin whose support_watch is false makes
\* GpioWatcher::new fail with the unwatchable-pin error in its first step, and
\* then and ever after no inotify instance exists, no watch is registered,
\* nothing was published on any channel and no task was spawned.
C1_UnwatchableRejected ==
    [][(wpc = "idle" /\ wpc' # "idle" /\ \E s \in Held : ~support_watch(pins[s]))
         => (wpc' = "failed" /\ last'.status = "UnwatchablePin")]_vars
    /\ []((wpc = "failed" /\ last.status = "UnwatchablePin") => NothingAllocated)

\* a map with a watch-capable pin and an unwatchable one was rejected
C1_Witness ==
    /\ wpc = "failed"
    /\ last.status = "UnwatchablePin"
    /\ \E a, b \in InMap : support_watch(pins[a].was) /\ ~support_watch(pins[b].was)

\* C2: once the GpioWatcher is dropped, the task publishes on no channel.
C2_NoPublishAfterDrop ==
    [][\A c \in Chans : handle = "dropped" => ~TaskPublishes(c)]_vars

\* C3: a change-event value is published only when every pin of the map has
\* had its initial value published.
C3_InitialBeforeChange ==
    \A c \in Chans :
        "change" \in sent[c] => \A s \in InMap : "initial" \in sent[s]

\* a change was published by a watcher of two pins
C3_Witness ==
    /\ Cardinality(InMap) = MaxPins
    /\ \E c \in Chans : "change" \in sent[c]

\* the value file of pin n holds v, one of the two levels
Holds(n, v) == ReadResult(file[n]) = [status |-> "ok", val |-> v]

\* the watcher runs, its task is idle and every delivered event is processed
Drained ==
    /\ handle = "live"
    /\ task.pc = "wait"
    /\ queue = <<>>

\* C4: when the watcher runs and all pending events are processed, the channel
\* of every registered pin whose receiver is alive carries the level its value
\* file holds.
C4_NoLostTransition ==
    \A wd \in DOMAIN notifier_map : \A v \in {0, 1} :
        (Drained /\ Holds(notifier_map[wd].path, v) /\ CanSend(notifier_map[wd].chan))
            => chan[notifier_map[wd].chan].value = v

\* the pin number whose value file the pin paired with channel c reads
PathOf(c) == get_pin_number(pins[c].was)

\* a modify event of the watch paired with channel c waits in the queue
Written(c) ==
    \E wd \in DOMAIN notifier_map :
        /\ notifier_map[wd].chan = c
        /\ \E i \in 1..Len(queue) : queue[i] = ModifyEvent(wd)

\* the file of the running watcher's pin paired with c was written and holds v
WrittenWhileRunning(c, v) ==
    /\ handle = "live"
    /\ c \in InMap
    /\ Written(c)
    /\ CanSend(c)
    /\ Holds(PathOf(c), v)

\* the channel carries v, or the case is over: dropped, receiver gone, file changed
CarriesOrOver(c, v) ==
    \/ chan[c].value = v
    \/ handle # "live"
    \/ ~CanSend(c)
    \/ ~(c \in InMap /\ Holds(PathOf(c), v))

\* a write of a level to the file of the pin paired with channel d awaits
\* processing and the channel does not carry that level
Stale(d) == \E v \in {0, 1} : WrittenWhileRunning(d, v) /\ chan[d].value # v

\* the channel carries the level the file holds, or the case is over
Settled(d) == \A v \in {0, 1} : CarriesOrOver(d, v)

\* C5: the first value published on a pin's channel is the one parsed from what
\* the constructor read from the pin's value file, before any change value; and
\* after a write of level v to the value file of a pin of a running watcher the
\* channel comes to carry v, unless the watcher is dropped, the receiver goes
\* away or the file changes again.
C5_InitialThenChange ==
    /\ [][(wpc = "loop" /\ wpc' = "read_done")
            => cur'.content = file[get_pin_number(cur'.pin)]]_vars
    /\ [][\A c \in Chans : NewPublishes(c)
            => /\ cur.chan = c
               /\ "change" \notin sent[c]
               /\ chan'[c].value = ReadResult(cur.content).val]_vars
    /\ \A c \in Chans : Stale(c) ~> Settled(c)

\* a running watcher published the initial low level and then the written high
C5_Witness ==
    \E c \in InMap :
        /\ handle = "live"
        /\ sent[c] = {"initial", "change"}
        /\ chan[c].value = 1
        /\ Holds(PathOf(c), 1)
        /\ Drained

\* C6: a change value is published on the channel paired with the pin whose
\* value file produced the event, it is the message computed from that file,
\* and no other channel changes in that step.
C6_NoCrossTalk ==
    /\ [][(task.pc = "read" /\ task'.pc = "send")
            => task'.msg = Message(file[watches[task.wd]])]_vars
    /\ [][\A c \in Chans : TaskPublishes(c)
            => /\ c \in InMap
               /\ PathOf(c) = watches[task.wd]
               /\ chan'[c].value = task.msg
               /\ \A d \in Chans \ {c} : chan'[d] = chan[d] /\ sent'[d] = sent[d]]_vars

\* with two pins registered, a change was published for a pin whose number
\* differs from its channel's and the other channel saw no change
C6_Witness ==
    /\ Cardinality(DOMAIN notifier_map) = MaxPins
    /\ \E c \in InMap : \E d \in InMap :
           /\ PathOf(c) # c
           /\ "change" \in sent[c]
           /\ "change" \notin sent[d]

ReadOrRegistrationError == {"IoError", "ParseError", "WatchRegistrationError"}

\* C7: when the initial read or the watch registration of a pin fails,
\* GpioWatcher::new returns that error, and after a failed construction there
\* is no GpioWatcher, no task, and no inotify instance, watch or queued event.
C7_AllOrNothing ==
    /\ [][(wpc = "read_done" /\ wpc' # "read_done"
             /\ ReadResult(cur.content).status # "ok")
            => (wpc' = "failed" /\ last'.status = ReadResult(cur.content).status)]_vars
    /\ [](last.status \in ReadOrRegistrationError => wpc = "failed")
    /\ [](wpc = "failed"
            => /\ task = NoTask
               /\ handle = "none"
               /\ inotify \notin {"open", "stream"}
               /\ watches = <<>>
               /\ notifier_map = <<>>
               /\ queue = <<>>)

\* the read of the second pin failed after the first pin was registered
C7_Witness ==
    /\ wpc = "failed"
    /\ last.status = "IoError"
    /\ \E c \in InMap : "initial" \in sent[c]

(* ========================= properties of the pins ====================== *)
\* C8: a pin keeps its role and number; an Output pin never supports watch; an
\* Input pin starts without watch support, gains it only by a successful
\* enable_watch, never loses it, and a failed enable_watch changes no pin.
C8_RoleAndFlag ==
    [][\A s \in Slots :
         /\ IsPin(pins[s])
              => /\ pins'[s].kind = pins[s].kind
                 /\ get_pin_number(pins'[s]) = get_pin_number(pins[s])
         /\ pins'[s].kind = "Output" => ~support_watch(pins'[s])
         /\ (pins[s] = NoPin /\ pins'[s].kind = "Input") => ~support_watch(pins'[s])
         /\ (IsPin(pins[s]) /\ support_watch(pins[s])) => support_watch(pins'[s])
         /\ (IsPin(pins[s]) /\ ~support_watch(pins[s]) /\ support_watch(pins'[s]))
              => last' = Step("enable_watch", s, 0, "ok", "edge")
         /\ (last'.op = "enable_watch" /\ last'.status # "ok") => pins' = pins]_vars

\* enable_watch failed on an Input pin that already supported watch
C8_Witness ==
    \E s \in Slots :
        /\ pins[s].kind = "Input"
        /\ support_watch(pins[s])
        /\ last = Step("enable_watch", s, 0, "EdgeError", "edge")

\* C9: enable_watch on an Output pin fails as unsupported, runs no tool and
\* changes neither the pin nor anything the tool configures.
C9_OutputNeverWatched ==
    [][\A s \in Slots :
         (pins[s].kind = "Output" /\ \E ok \in BOOLEAN : enable_watch(s, ok))
            => /\ last'.status = "UnsupportedOperation"
               /\ last'.tool = "none"
               /\ pins' = pins
               /\ gpio' = gpio
               /\ file' = file
               /\ ~support_watch(pins'[s])]_vars

\* enable_watch was called on an Output pin
C9_Witness ==
    /\ last.op = "enable_watch"
    /\ last.status = "UnsupportedOperation"
    /\ pins[last.slot].kind = "Output"

\* C10: write and new_output with a value other than 0 and 1 fail with the
\* invalid-argument error, change no value file, run no tool and return no pin.
C10_InvalidValueRejected ==
    [][\A s \in Slots : \A v \in ValueSamples \ {0, 1} :
         /\ (\E io \in BOOLEAN : write(s, v, io))
              => /\ last'.status = "InvalidArgument"
                 /\ last'.tool = "none"
                 /\ file' = file
                 /\ queue' = queue
         /\ (\E n \in PinNumbers, ok \in BOOLEAN, io \in BOOLEAN :
                 new_output(s, n, v, ok, io))
              => /\ last'.status = "InvalidArgument"
                 /\ last'.tool = "none"
                 /\ file' = file
                 /\ gpio' = gpio
                 /\ pins' = pins]_vars

\* write was called with a value that is neither 0 nor 1
C10_Witness ==
    /\ last.op = "write"
    /\ last.status = "InvalidArgument"
    /\ last.val \notin {0, 1}

(* ------------------- construction and values of pins ------------------- *)
\* this step is a pin constructor returning an error
ConstructorFails ==
    /\ \E s \in Slots, n \in PinNumbers, d \in ValueSamples, ok \in BOOLEAN, io \in BOOLEAN :
           new_input(s, n, ok) \/ new_output(s, n, d, ok, io)
    /\ last'.status # "ok"

\* C11: a pin constructor that fails returns no pin and leaves the export
\* state and the value file of the pin number as they were.
C11_AtomicConstruction ==
    [][ConstructorFails => (pins' = pins /\ gpio' = gpio /\ file' = file)]_vars

\* C12: a successful read() returns 0 or 1 whatever the value file holds.
C12_ValuesAreLevels ==
    (last.op = "read" /\ last.status = "ok") => last.val \in {0, 1}

\* this step is read() on the pin of slot s right after a successful write(v)
\* on that pin, the value file still holding what the write left
ReadAfterWrite(s) ==
    /\ read(s)
    /\ last.op = "write"
    /\ last.status = "ok"
    /\ last.slot = s
    /\ file[get_pin_number(pins[s])] = U8ToString(last.val)

\* C13: a successful write(v) leaves the text of v in the value file of the
\* pin, and a read() that follows it on that pin, the file not modified in
\* between, succeeds and returns v.
C13_WriteReadRoundTrip ==
    /\ [][\A s \in Slots, v \in {0, 1}, io \in BOOLEAN :
            (write(s, v, io) /\ last'.status = "ok")
                => file'[get_pin_number(pins[s])] = U8ToString(v)]_vars
    /\ [][\A s \in Slots :
            ReadAfterWrite(s) => (last'.status = "ok" /\ last'.val = last.val)]_vars

\* read() returned 1 from a file that only write(1) on an input pin can have left
C13_Witness ==
    /\ last.op = "read"
    /\ last.status = "ok"
    /\ last.val = 1
    /\ pins[last.slot].kind = "Input"
    /\ file[get_pin_number(pins[last.slot])] = <<"1">>
    /\ \A s \in Slots : pins[s].kind # "Output"

(* ----------------------- the task and its events ----------------------- *)
\* the task is in its loop with the event stream and the whole map
TaskInLoop ==
    /\ task.pc \in {"wait", "read", "send"}
    /\ inotify = "stream"
    /\ \A s \in InMap : \E wd \in DOMAIN notifier_map : notifier_map[wd].chan = s

\* this step is the task failing to re-read a value file
ReadFails == task_read /\ ~Readable(file[notifier_map[task.wd].path])

\* this step is the task failing to send because the receivers are gone
SendFails == task_send /\ ~CanSend(notifier_map[task.wd].chan)

\* the task logged a failure for another channel and then d became stale
StaleAfterFailure(d) ==
    /\ task.pc \in {"wait", "read", "send"}
    /\ task.logged \in Chans \ {d}
    /\ Stale(d)

\* C14: a failed re-read or a failed send returns the task to the head of its
\* loop with its stream and map intact, and a modify event of another
\* registered pin that comes after the failure is still published.
C14_TaskSurvivesFailures ==
    /\ [][(ReadFails \/ SendFails)
            => (task'.pc = "wait" /\ TaskInLoop' /\ queue' = queue
                /\ notifier_map' = notifier_map /\ watches' = watches)]_vars
    /\ \A d \in Chans : StaleAfterFailure(d) ~> Settled(d)

\* after a failure logged for one pin the task has taken a modify event of the
\* other pin and is about to publish the level it read from that pin's file
C14_Witness ==
    \E c \in InMap, d \in InMap :
        /\ c # d
        /\ handle = "live"
        /\ task.logged = c
        /\ ~CanSend(c)
        /\ file[PathOf(c)] = BadUtf8
        /\ task.pc = "send"
        /\ notifier_map[task.wd].chan = d
        /\ CanSend(d)
        /\ task.msg = 1
        /\ chan[d].value = 0

\* C15: an item the event source delivers ends the task only when it is the
\* end of the source; after any other item the task is still in its loop.
C15_StopsOnlyOnEndOrDrop ==
    [][(task_next /\ Head(queue).kind # "end") => TaskInLoop']_vars

(* ------------------------- setup and lifecycle ------------------------- *)
\* this step registers a watch under the identifier wd
Registers(wd) == wd \notin DOMAIN notifier_map /\ wd \in DOMAIN notifier_map'

\* C16: a pin value comes into being only by a successful export as input or
\* output; the flag of an input pin is set only by a successful edge
\* configuration of that pin; a watch is registered only for an input pin with
\* the flag set; so every pin of a running watcher was exported as input, then
\* edge-configured, then registered.
C16_SetupOrder ==
    /\ [][\A s \in Slots : (pins[s] = NoPin /\ pins'[s].kind = "Input")
            => /\ last' = Step("new_input", s, get_pin_number(pins'[s]), "ok", "export")
               /\ gpio'[get_pin_number(pins'[s])] = "in"
               /\ ~support_watch(pins'[s])]_vars
    /\ [][\A s \in Slots : (IsPin(pins[s]) /\ ~support_watch(pins[s]) /\ support_watch(pins'[s]))
            => /\ pins[s].kind = "Input"
               /\ last' = Step("enable_watch", s, 0, "ok", "edge")
               /\ gpio'[get_pin_number(pins[s])] = "edge"]_vars
    /\ [][\A wd \in WatchIds : Registers(wd)
            => /\ cur.pin = InputPin(notifier_map'[wd].path, TRUE)
               /\ pins[notifier_map'[wd].chan] = Moved(cur.pin)
               /\ task = NoTask]_vars
    /\ [](\A wd \in DOMAIN notifier_map :
            pins[notifier_map[wd].chan] = Moved(InputPin(notifier_map[wd].path, TRUE)))

\* two pins constructed as inputs and enabled are registered with a running
\* watcher
C16_Witness ==
    /\ handle = "live"
    /\ task.pc = "wait"
    /\ Cardinality(DOMAIN notifier_map) = MaxPins
    /\ \A n \in PinNumbers : gpio[n] = "edge"

\* the lifecycle state of the watcher (Validating is inside the first step of
\* GpioWatcher::new)
Phase ==
    IF handle = "dropped" THEN "Cancelled"
    ELSE IF handle = "live" THEN "Running"
    ELSE IF wpc = "idle" THEN "Uninitialized"
    ELSE IF wpc \in {"loop", "read_done"} THEN "Registering"
    ELSE "Failed"

PhaseMoves ==
    {<<"Uninitialized", "Registering">>, <<"Uninitialized", "Failed">>,
     <<"Registering", "Running">>, <<"Registering", "Failed">>,
     <<"Running", "Cancelled">>}

\* C17: the lifecycle moves forward only; the task is spawned once, after the
\* loop has registered every pin; the running task's map does not change; and
\* after the handle is dropped nothing is published.
C17_Lifecycle ==
    /\ [][Phase' # Phase => <<Phase, Phase'>> \in PhaseMoves]_vars
    /\ [][(task = NoTask /\ task' # NoTask)
            => (Phase = "Registering" /\ Phase' = "Running" /\ LoopDone
                /\ InMap = {notifier_map[wd].chan : wd \in DOMAIN notifier_map})]_vars
    /\ [][task # NoTask => task' # NoTask]_vars
    /\ [][(TaskInLoop /\ TaskInLoop') => notifier_map' = notifier_map]_vars
    /\ [][Phase = "Cancelled"
            => /\ Phase' = "Cancelled"
               /\ sent' = sent
               /\ \A c \in Chans : chan'[c].value = chan[c].value]_vars

\* this step is the task taking an event it does not act on
Skips == task_next /\ Head(queue).kind = "event" /\ ~ActsOn(Head(queue))

\* C18: the task goes on to read and publish only for an event whose mask is
\* modify and whose watch identifier is in the map; any other event is taken
\* from the stream with no publication, no change of the map and the task
\* still in its loop; a change value is published only by the send of such an
\* event's handling.
C18_OnlyKnownModifyPublishes ==
    /\ [][(task_next /\ task'.pc = "read")
            => /\ Head(queue).mask = "MODIFY"
               /\ Head(queue).wd \in DOMAIN notifier_map
               /\ task'.wd = Head(queue).wd]_vars
    /\ [][Skips
            => /\ task' = task
               /\ chan' = chan /\ sent' = sent
               /\ notifier_map' = notifier_map
               /\ TaskInLoop']_vars
    /\ [][\A c \in Chans :
            (wpc = "returned" /\ (chan'[c].value # chan[c].value \/ sent'[c] # sent[c]))
            => /\ task.pc = "send"
               /\ task.wd \in DOMAIN notifier_map
               /\ notifier_map[task.wd].chan = c]_vars

\* the task took a create, delete or unknown-watch event of a two-pin watcher
\* and waits for the next one, having published nothing
C18_Witness ==
    /\ noise = MaxNoise
    /\ queue = <<>>
    /\ handle = "live"
    /\ task.pc = "wait"
    /\ TaskInLoop
    /\ Cardinality(DOMAIN notifier_map) = MaxPins
    /\ \A c \in Chans : sent[c] = {"initial"}

(* ------------------- failures while registering pins ------------------- *)
\* this step is GpioWatcher::new failing at the entry it is processing
FailsAtPin == wpc = "read_done" /\ wpc' = "failed"

\* the channels of the entries processed before the current one
Before == InMap \ ({cur.chan} \cup {e.chan : e \in pin_map})

\* the channels of the entries not yet taken from the pin map
After == {e.chan : e \in pin_map}

\* C19: when the receivers of the channel of the entry being processed are
\* gone and its value was read, GpioWatcher::new fails with the send error
\* without publishing; after that failure there is no watcher, no task and no
\* inotify instance.
C19_InitialSendFatal ==
    /\ [][(wpc = "read_done" /\ wpc' # "read_done"
             /\ ReadResult(cur.content).status = "ok" /\ ~chan[cur.chan].rx)
            => /\ wpc' = "failed"
               /\ last'.status = "SendError"
               /\ chan' = chan /\ sent' = sent]_vars
    /\ [](last.status = "SendError"
            => /\ wpc = "failed"
               /\ task = NoTask
               /\ handle = "none"
               /\ inotify = "closed"
               /\ watches = <<>>)

\* construction over two watch-capable pins with readable files failed on the
\* send of the second
C19_Witness ==
    /\ last.status = "SendError"
    /\ Cardinality(InMap) = MaxPins
    /\ \A s \in InMap : support_watch(pins[s].was) /\ Holds(PathOf(s), 0)
    /\ \E c \in InMap : "initial" \in sent[c]

\* C20 as stated: at a failure in the loop exactly the channels of the entries
\* processed before the failing one have an initial publication, and a failed
\* construction publishes nothing more.
C20_PartialInitialPublications ==
    /\ [][FailsAtPin
            => \A c \in InMap : "initial" \in sent'[c] <=> c \in Before]_vars
    /\ [][wpc = "failed"
            => sent' = sent /\ \A c \in Chans : chan'[c].value = chan[c].value]_vars

\* C20, amended: the channel of the failing entry has its initial publication
\* too when the step that failed is the watch registration, which comes
\* after the send; each publication of the loop is the first one on the
\* channel of the entry being processed.
C20_PartialInitialPublications_Amended ==
    /\ [][FailsAtPin
            => \A c \in InMap :
                 "initial" \in sent'[c]
                     <=> \/ c \in Before
                         \/ c = cur.chan /\ last'.status = "WatchRegistrationError"]_vars
    /\ [][FailsAtPin => \A c \in After : sent'[c] = {} /\ chan'[c] = chan[c]]_vars
    /\ [][(wpc = "read_done" /\ sent' # sent)
            => /\ sent[cur.chan] = {}
               /\ \A c \in Chans \ {cur.chan} : sent'[c] = sent[c] /\ chan'[c] = chan[c]]_vars
    /\ [][wpc = "failed"
            => sent' = sent /\ \A c \in Chans : chan'[c].value = chan[c].value]_vars

\* the watch registration of the first of two pins failed: its channel has the
\* initial value, the other channel has nothing
C20_Witness ==
    /\ wpc = "failed"
    /\ last.status = "WatchRegistrationError"
    /\ Cardinality(InMap) = MaxPins
    /\ \E c \in InMap : \E d \in InMap :
           /\ sent[c] = {"initial"}
           /\ sent[d] = {}

====
